---- MODULE Spec2Model ----
(***************************************************************************)
(* animatus-svg: the playback controller (class SVGAnimator), the build    *)
(* step that feeds it, and the part of the host's Web Animations objects   *)
(* the controller drives (Animation.pause/play/cancel/reverse, a settable  *)
(* currentTime, the `finished` promise).                                   *)
(*                                                                         *)
(* JavaScript runs one task at a time.  `play` is async: everything up to  *)
(* `await Promise.all(...)` runs in the caller's task, the rest runs later *)
(* as a continuation, once the awaited promise has settled.  Between the   *)
(* two, any other public method may be called.  Each pending continuation  *)
(* is an entry of `joins`.                                                 *)
(***************************************************************************)
EXTENDS Integers, Sequences, FiniteSets, TLC

VARIABLES
    svg,                \* SVGAnimator.svg: the document (see below)
    config,             \* SVGAnimator.config (the fields that drive playback)
    parsedElements,     \* SVGAnimator.parsedElements
    animations,         \* SVGAnimator.animations: the GeneratedAnimation list
    runningAnimations,  \* SVGAnimator.runningAnimations: handle ids, in order
    state,              \* SVGAnimator.state: the AnimationState record
    cleanupFunctions,   \* SVGAnimator.cleanupFunctions: closures, in order
    handles,            \* host: the Animation objects element.animate() made
    style,              \* host: element.style of each element (three properties)
    joins,              \* play() invocations suspended at their await
    timers,             \* host: the timeouts play() has set that have yet to run
    submissions         \* times the current GeneratedAnimation list was animated

vars == <<svg, config, parsedElements, animations, runningAnimations, state,
          cleanupFunctions, handles, style, joins, timers, submissions>>

----------------------------------------------------------------------------
(* Bounds of the model.                                                    *)

\* Animatable elements of the document.
NumElements == 1

\* Cycles in flight at once: suspended play() invocations, and sets of
\* handles the host holds (the current one and older ones still running or
\* still awaited).
MaxCycles == 2

\* Times play() may animate a GeneratedAnimation list again without a reset.
MaxReplays == 1

MaxHandles == MaxCycles * NumElements

\* Timeouts pending at once: those of one cycle.
MaxTimers == NumElements

\* Elements below the root of a document given to the build step.
MaxNodes == 3

----------------------------------------------------------------------------
(* Program constants.                                                      *)

DefaultDuration == 1000
DefaultStagger == 50
OptionsDuration == 1000
OptionsDelay == 0

\* Values the caller may configure.
Delays == {0, 100}
Staggers == {50}
Durations == {1000}
SeekTimes == {0, 2000}

\* elementConfig: per-element overrides keyed by ParsedElement.id.  A field
\* that is 0 stands for one that is 0 or missing: the code reads each
\* through `||`, which takes the two alike.
NoOverrides == [id \in {} |-> [mode |-> "", duration |-> 0, delay |-> 0]]

\* The animation modes; "" stands for a mode that is missing.
Modes == {"auto", "draw", "fade", "scale", "slide", "rotate", "pulse", "bounce"}

Configs == [mode : {"auto"}, duration : Durations, delay : Delays,
            stagger : Staggers, loop : BOOLEAN, elementConfig : {NoOverrides}]

\* Configurations given to the build step.
BuildDurations == {0, 500}
BuildDelays == {0, 100}
BuildStaggers == {0, 100}
Overrides ==
    {NoOverrides,
     [id \in {"svg-anim-1"} |-> [mode |-> "", duration |-> 0, delay |-> 30]]}

BuildConfigs == [mode : {"auto"}, duration : BuildDurations, delay : BuildDelays,
                 stagger : BuildStaggers, loop : {FALSE},
                 elementConfig : Overrides]

\* Configurations given to one strategy call.
StrategyConfigs == [mode : Modes, duration : {500}, delay : {0}, stagger : {50},
                    loop : {FALSE}, elementConfig : {NoOverrides}]

\* Partial configurations handed to updateConfig.
UpdateInputs == {[loop |-> b] : b \in BOOLEAN} \cup {[delay |-> d] : d \in Delays}

----------------------------------------------------------------------------
(* Small helpers.                                                          *)

Range(s) == {s[i] : i \in DOMAIN s}

\* JavaScript's `x || d` on numbers: 0 is falsy.
OrElse(x, d) == IF x = 0 THEN d ELSE x

\* JavaScript's `x || d` on strings: "" and a missing value are falsy.
OrElseText(x, d) == IF x = "" THEN d ELSE x

\* `${n}`: the decimal numeral of a natural number.
RECURSIVE Numeral(_)
Numeral(n) ==
    LET digit == <<"0", "1", "2", "3", "4", "5", "6", "7", "8", "9">>[(n % 10) + 1]
    IN IF n < 10 THEN digit ELSE Numeral(n \div 10) \o digit

RECURSIVE Gcd(_, _)
Gcd(a, b) == IF b = 0 THEN a ELSE Gcd(b, a % b)

\* The number n / d (d > 0, n >= 0) as a fraction in lowest terms.
Ratio(n, d) == LET g == Gcd(n, d) IN <<n \div g, d \div g>>

Zero == <<0, 1>>
One == <<1, 1>>

RECURSIVE SeqMax(_)
SeqMax(s) ==
    IF Len(s) = 1 THEN s[1]
    ELSE LET m == SeqMax(Tail(s)) IN IF s[1] >= m THEN s[1] ELSE m

----------------------------------------------------------------------------
(* The document.  An <svg> is the sequence of its descendant elements in   *)
(* document order, each with its tag name, its id attribute ("" when it    *)
(* has none) and its depth below the root (1 for the root's children).  An *)
(* element is named by its position in that sequence.  An element also     *)
(* has its stroke and stroke-width attributes ("" when absent), the stroke *)
(* and stroke width of its computed style, what getTotalLength() returns   *)
(* for it (<<n>>, or <<>> when it has no geometry), and the inline style   *)
(* it has when the controller is constructed.                              *)

\* element.style: the three properties the strategies write.
NoStyle == [transformOrigin |-> "", strokeDasharray |-> "", strokeDashoffset |-> ""]

\* The kinds of element that are geometry elements.
GeometryTags == {"path", "line", "polyline", "polygon", "circle", "ellipse", "rect"}

\* An element without stroke or inline style; its length, if it has a
\* geometry, is 100.
Element(tag, id, depth) ==
    [tag |-> tag, id |-> id, depth |-> depth,
     stroke |-> "", strokeWidth |-> "",
     computed |-> [stroke |-> "none", strokeWidth |-> "1px"],
     totalLength |-> IF tag \in GeometryTags THEN <<100>> ELSE <<>>,
     style |-> NoStyle]

\* The document the controller plays: NumElements leaves below the root,
\* circles and texts in turn, none with an id.
ElementType(e) == IF e % 2 = 1 THEN "circle" ELSE "text"

PlayedDocument ==
    [i \in 1..NumElements |-> Element(ElementType(i), "", 1)]

\* Depth of node p of document doc; 0 stands for the root.
DepthOf(doc, p) == IF p = 0 THEN 0 ELSE doc[p].depth

\* parent.children: the child elements of node p, in document order.
Children(doc, p) ==
    SelectSeq([j \in 1..Len(doc) |-> j],
              LAMBDA j : /\ j > p
                         /\ doc[j].depth = DepthOf(doc, p) + 1
                         /\ \A k \in (p + 1)..(j - 1) : doc[k].depth > DepthOf(doc, p))

\* The documents given to the build step: up to MaxNodes elements, with or
\* without an id: groups and links (<a>, a tag the parser does not know)
\* holding anything but spans, texts holding spans, and shapes.
Tags == {"g", "a", "text", "tspan", "circle"}
Ids == {"", "svg-anim-1"}

\* The parent of node i of doc; 0 stands for the root.
ParentOf(doc, i) ==
    IF doc[i].depth = 1 THEN 0
    ELSE CHOOSE p \in 1..(i - 1) :
             /\ doc[p].depth = doc[i].depth - 1
             /\ \A k \in (p + 1)..(i - 1) : doc[k].depth >= doc[i].depth

ParentTag(doc, i) == IF ParentOf(doc, i) = 0 THEN "svg" ELSE doc[ParentOf(doc, i)].tag

Outlines ==
    UNION {{doc \in [1..n -> [tag : Tags, id : Ids, depth : 1..MaxNodes]] :
               /\ \A i \in 1..n :
                      doc[i].depth <= (IF i = 1 THEN 0 ELSE doc[i - 1].depth) + 1
               /\ \A i \in 1..n :
                      /\ ParentTag(doc, i) \in {"svg", "g", "a", "text"}
                      /\ (doc[i].tag = "tspan") = (ParentTag(doc, i) = "text")}
           : n \in 0..MaxNodes}

Documents ==
    {[i \in DOMAIN o |-> Element(o[i].tag, o[i].id, o[i].depth)] : o \in Outlines}

\* The elements given to one strategy call: every kind the parser knows
\* that can stand below the root, with and without a stroke attribute, a
\* stroke-width attribute, a stroke in the computed style, with no
\* geometry, a length of 0 and a positive length, and with and without an
\* inline style of its own.
ShapeTags ==
    {"path", "line", "polyline", "polygon", "circle", "ellipse", "rect",
     "text", "g", "use", "image"}
StrokeAttributes == {"", "none", "black"}
StrokeWidthAttributes == {"", "0", "2"}
ComputedStyles == [stroke : {"none", "black"}, strokeWidth : {"0px", "2px"}]
TotalLengths == {<<>>, <<0>>, <<120>>}
InlineStyles ==
    [transformOrigin : {"", "top left"}, strokeDasharray : {"", "4 2"},
     strokeDashoffset : {"", "3"}]

Shapes ==
    [tag : ShapeTags, id : {""}, depth : {1},
     stroke : StrokeAttributes, strokeWidth : StrokeWidthAttributes,
     computed : ComputedStyles, totalLength : TotalLengths, style : InlineStyles]

----------------------------------------------------------------------------
(* The parser.                                                             *)

ANIMATABLE_ELEMENTS ==
    {"path", "circle", "ellipse", "rect", "line", "polyline", "polygon",
     "text", "tspan", "g", "use", "image"}

getElementType(tagName) ==
    IF tagName \in ANIMATABLE_ELEMENTS THEN tagName ELSE "unknown"

\* `${index}`: the decimal numeral of a small index.
IndexText(index) == <<"0", "1", "2", "3", "4", "5", "6", "7", "8", "9">>[index + 1]

generateElementId(node, index) ==
    IF node.id /= "" THEN node.id ELSE "svg-anim-" \o IndexText(index)

\* getPathLength(element): getTotalLength() of a geometry element, else
\* undefined (<<>>).
getPathLength(element) == element.totalLength

hasStroke(element) ==
    LET stroke == element.stroke
        strokeWidth == element.strokeWidth
        computedStyle == element.computed
        hasStrokeAttr == stroke /= "" /\ stroke /= "none"
        hasStrokeStyle == computedStyle.stroke /= "" /\ computedStyle.stroke /= "none"
        hasWidth == strokeWidth /= "0" /\ computedStyle.strokeWidth /= "0px"
    IN (hasStrokeAttr \/ hasStrokeStyle) /\ hasWidth

\* traverse(parent): the loop over kids (what is left of parent.children),
\* with the items pushed so far and the shared counter `index`.  A
\* ParsedElement without a `children` field has children <<>> here;
\* flattenElements treats the two alike.
RECURSIVE traverseLoop(_, _, _, _)
traverseLoop(doc, kids, result, index) ==
    IF kids = <<>> THEN [result |-> result, index |-> index]
    ELSE LET child == Head(kids)
             type == getElementType(doc[child].tag)
             grandchildren == Children(doc, child)
         IN IF type = "unknown"
            THEN IF Len(grandchildren) > 0
                 THEN LET sub == traverseLoop(doc, grandchildren, <<>>, index)
                      IN traverseLoop(doc, Tail(kids), result \o sub.result, sub.index)
                 ELSE traverseLoop(doc, Tail(kids), result, index)
            ELSE LET sub == IF type = "g" /\ Len(grandchildren) > 0
                            THEN traverseLoop(doc, grandchildren, <<>>, index + 1)
                            ELSE [result |-> <<>>, index |-> index + 1]
                     parsed == [element    |-> child,
                                type       |-> type,
                                id         |-> generateElementId(doc[child], index),
                                index      |-> index,
                                pathLength |-> getPathLength(doc[child]),
                                children   |-> sub.result]
                 IN traverseLoop(doc, Tail(kids), Append(result, parsed), sub.index)

traverse(doc, parent, index) == traverseLoop(doc, Children(doc, parent), <<>>, index)

parseSVG(doc) == traverse(doc, 0, 0).result

\* A flatten that pushes an item after its children, for contrast with
\* flattenElements.
RECURSIVE flattenChildrenFirst(_)
flattenChildrenFirst(elements) ==
    IF elements = <<>> THEN <<>>
    ELSE flattenChildrenFirst(Head(elements).children)
             \o <<Head(elements)>> \o flattenChildrenFirst(Tail(elements))

RECURSIVE flattenElements(_)
flattenElements(elements) ==
    IF elements = <<>> THEN <<>>
    ELSE <<Head(elements)>> \o flattenElements(Head(elements).children)
                           \o flattenElements(Tail(elements))

----------------------------------------------------------------------------
(* Animation strategies.                                                   *)

\* Whether an optional number (<<>> or <<n>>) is truthy: defined and not 0.
Truthy(number) == number /= <<>> /\ number[1] /= 0

determineAutoAnimation(doc, parsed) ==
    CASE parsed.type \in {"path", "line", "polyline", "polygon"} ->
             IF hasStroke(doc[parsed.element]) /\ Truthy(parsed.pathLength)
             THEN "draw" ELSE "fade"
      [] parsed.type \in {"circle", "ellipse", "rect"} -> "scale"
      [] OTHER -> "fade"

buildAnimationOptions(cfg) ==
    [duration |-> OrElse(cfg.duration, OptionsDuration),
     delay    |-> OrElse(cfg.delay, OptionsDelay)]

\* The transform origin the scale, rotate and pulse strategies write: the
\* centre of the bounds.
CentreOrigin == "centre"

\* The length the draw strategy falls back on: `pathLength || 1000`.
DrawLength == 1000

\* The strategy createAnimation dispatches to: the heuristic's for 'auto',
\* else the one asked for, fade when none is.
StrategyOf(doc, parsed, cfg) ==
    LET mode == IF cfg.mode = "auto" THEN determineAutoAnimation(doc, parsed)
                ELSE OrElseText(cfg.mode, "fade")
    IN IF mode \in Modes \ {"auto"} THEN mode ELSE "fade"

\* The style properties a strategy writes on its element at call time, with
\* the values written.
Written(mode, parsed) ==
    CASE mode = "draw" ->
             LET length == IF Truthy(parsed.pathLength) THEN parsed.pathLength[1]
                           ELSE DrawLength
             IN [strokeDasharray |-> Numeral(length),
                 strokeDashoffset |-> Numeral(length)]
      [] mode \in {"scale", "rotate", "pulse"} -> [transformOrigin |-> CentreOrigin]
      [] OTHER -> [property \in {} |-> ""]

\* element.style.p = v, for every property p of `values`.
WriteStyle(elementStyle, values) ==
    [p \in DOMAIN elementStyle |->
        IF p \in DOMAIN values THEN values[p] ELSE elementStyle[p]]

\* A createAnimation whose strategies read the style to restore after they
\* have written it, for contrast with createAnimation.
createAnimationLateRead(doc, parsed, cfg, st) ==
    LET mode == StrategyOf(doc, parsed, cfg) IN
    [index     |-> parsed.index,
     element   |-> parsed.element,
     keyframes |-> mode,
     options   |-> buildAnimationOptions(cfg),
     cleanup   |-> DOMAIN Written(mode, parsed) /= {},
     original  |-> Written(mode, parsed)]

\* createAnimation: the GeneratedAnimation it returns.  The keyframes are
\* named by the strategy that made them; `cleanup`, when there is one,
\* closes over the values of the properties read before they were written
\* (`original`).
createAnimation(doc, parsed, cfg, st) ==
    LET mode == StrategyOf(doc, parsed, cfg) IN
    [index     |-> parsed.index,
     element   |-> parsed.element,
     keyframes |-> mode,
     options   |-> buildAnimationOptions(cfg),
     cleanup   |-> DOMAIN Written(mode, parsed) /= {},
     original  |-> [property \in DOMAIN Written(mode, parsed) |->
                       st[parsed.element][property]]]

\* The style createAnimation leaves on the element.
createAnimationStyle(doc, parsed, cfg, st) ==
    WriteStyle(st[parsed.element], Written(StrategyOf(doc, parsed, cfg), parsed))

----------------------------------------------------------------------------
(* Host: one Animation object.                                             *)

NewAnimation(anim) ==
    [index       |-> anim.index,
     status      |-> "running",
     currentTime |-> 0,
     rate        |-> 1,
     endTime     |-> anim.options.delay + anim.options.duration,
     finished    |-> "pending"]

\* Whether playback at time t, in the direction of h, has reached its end.
AtEnd(h, t) == IF h.rate > 0 THEN t >= h.endTime ELSE t <= 0

\* Animation.cancel(): the pending `finished` promise is rejected.
HostCancel(h) ==
    IF h.status = "idle" THEN h
    ELSE [h EXCEPT !.status = "idle", !.currentTime = 0,
                   !.finished = IF @ = "pending" THEN "rejected" ELSE @]

\* Animation.pause(): a finished animation becomes paused too.
HostPause(h) ==
    IF h.status = "idle"
    THEN [h EXCEPT !.status = "paused",
                   !.currentTime = IF h.rate > 0 THEN 0 ELSE h.endTime]
    ELSE [h EXCEPT !.status = "paused"]

\* Animation.play(): rewinds when the playhead is outside the active range.
HostPlay(h) ==
    [h EXCEPT !.status = "running",
              !.currentTime =
                  IF h.rate > 0
                  THEN IF h.currentTime < 0 \/ h.currentTime >= h.endTime
                       THEN 0 ELSE h.currentTime
                  ELSE IF h.currentTime <= 0 \/ h.currentTime > h.endTime
                       THEN h.endTime ELSE h.currentTime]

\* Animation.reverse(): inverts the playback rate, then plays.
HostReverse(h) == HostPlay([h EXCEPT !.rate = 0 - h.rate])

\* animation.currentTime = t
HostSeek(h, t) ==
    [h EXCEPT !.currentTime = t,
              !.status = IF h.status \in {"paused", "idle"} THEN "paused"
                         ELSE IF AtEnd(h, t) THEN "finished" ELSE "running"]

\* The timeline carries a running animation to its end; its promise resolves.
HostFinish(h) ==
    [h EXCEPT !.status = "finished",
              !.currentTime = IF h.rate > 0 THEN h.endTime ELSE 0,
              !.finished = IF @ = "pending" THEN "resolved" ELSE @]

\* The finish notification queued when a seek put the playhead at the end.
HostNotify(h) == [h EXCEPT !.finished = "resolved"]

----------------------------------------------------------------------------
(* The controller.  Its methods are operators on a record m holding the    *)
(* controller's fields and the host objects they act on; an action of the  *)
(* model applies one method to the current values (Cur) and stores the     *)
(* result (Becomes).                                                       *)

InitialState ==
    [isPlaying |-> FALSE, isPaused |-> FALSE, progress |-> Zero, currentTime |-> 0]

\* One call of the controller on a host object: anim.cancel(), anim.pause(),
\* anim.play(), anim.reverse(), anim.currentTime = arg.
HostCall(h, method, arg) ==
    CASE method = "cancel"      -> HostCancel(h)
      [] method = "pause"       -> HostPause(h)
      [] method = "play"        -> HostPlay(h)
      [] method = "reverse"     -> HostReverse(h)
      [] method = "currentTime" -> HostSeek(h, arg)

\* this.runningAnimations.forEach(anim => ...): the call made on every handle
\* of the controller's handle set.
ForEachRunning(m, method, arg) ==
    [i \in DOMAIN m.handles |->
        IF i \in Range(m.runningAnimations)
        THEN HostCall(m.handles[i], method, arg) ELSE m.handles[i]]

\* A buildElementConfig without the stagger, for contrast with
\* buildElementConfig: every element would start after the base delay.
buildElementConfigUnstaggered(cfg, parsed, index) ==
    [mode |-> OrElseText(cfg.mode, "auto"),
     duration |-> cfg.duration, delay |-> OrElse(cfg.delay, 0)]

buildElementConfig(cfg, parsed, index) ==
    LET specificConfig ==
            IF parsed.id \in DOMAIN cfg.elementConfig
            THEN cfg.elementConfig[parsed.id]
            ELSE [mode |-> "", duration |-> 0, delay |-> 0]
        staggerDelay == OrElse(cfg.stagger, 0) * index
        baseDelay == OrElse(cfg.delay, 0)
    IN [mode     |-> OrElseText(specificConfig.mode, OrElseText(cfg.mode, "auto")),
        duration |-> OrElse(specificConfig.duration, cfg.duration),
        delay    |-> OrElse(specificConfig.delay, 0) + baseDelay + staggerDelay]

initialize(m) ==
    LET parsed == parseSVG(m.svg)
        flatElements == flattenElements(parsed)
        elementConfig(i) == buildElementConfig(m.config, flatElements[i], i - 1)
    IN [m EXCEPT
          !.parsedElements = parsed,
          !.submissions = 0,
          !.animations =
              [i \in DOMAIN flatElements |->
                  createAnimation(m.svg, flatElements[i], elementConfig(i), m.style)],
          !.style =
              [e \in DOMAIN m.style |->
                  IF \E i \in DOMAIN flatElements : flatElements[i].element = e
                  THEN LET k == CHOOSE i \in DOMAIN flatElements :
                                    flatElements[i].element = e
                       IN createAnimationStyle(m.svg, flatElements[k],
                                               elementConfig(k), m.style)
                  ELSE m.style[e]]]

\* The closures play() pushes: one per GeneratedAnimation that has a cleanup.
CleanupsOf(anims) ==
    LET withCleanup == SelectSeq(anims, LAMBDA a : a.cleanup)
    IN [i \in DOMAIN withCleanup |->
           [element  |-> withCleanup[i].element,
            original |-> withCleanup[i].original]]

\* The host objects something can still reach or that still play: those of
\* the handle set, those a suspended play() awaits, and those running or
\* paused.  The others are garbage.
Reachable(m) ==
    {id \in DOMAIN m.handles :
        \/ id \in Range(m.runningAnimations)
        \/ \E j \in DOMAIN m.joins : id \in Range(m.joins[j])
        \/ m.handles[id].status \in {"running", "paused"}}

RECURSIVE FirstIds(_, _)
FirstIds(free, n) ==
    IF n = 0 THEN <<>>
    ELSE LET x == CHOOSE y \in free : \A z \in free : y <= z
         IN <<x>> \o FirstIds(free \ {x}, n - 1)

\* Names for n new host objects.
NewIds(m, n) == FirstIds((1..MaxHandles) \ Reachable(m), n)

\* The timeouts play() sets, one per GeneratedAnimation: each will call
\* onElementStart(anim.element, index) once its delay has passed.  Time is
\* not measured here: a pending timeout may run at any later step.
ElementStartTimers(anims) ==
    [i \in DOMAIN anims |-> [element |-> anims[i].element, index |-> i - 1]]

\* A play() without its guard and without handles, for contrast with play:
\* it would restart the flags and fire onStart in every state.
playUnguarded(m) ==
    [m EXCEPT !.state.isPlaying = TRUE,
              !.state.isPaused = FALSE,
              !.events = Append(@, "onStart")]

\* play(): the synchronous part, up to its await, which suspends it on the
\* `finished` promises of the handles just made.
play(m) ==
    IF m.state.isPlaying THEN m
    ELSE LET ids == NewIds(m, Len(m.animations))
             kept == Reachable(m)
         IN [m EXCEPT
               !.state.isPlaying = TRUE,
               !.state.isPaused = FALSE,
               !.events = Append(@, "onStart"),
               !.handles =
                   [id \in kept \cup Range(ids) |->
                       IF id \in Range(ids)
                       THEN NewAnimation(
                                m.animations[CHOOSE i \in DOMAIN ids : ids[i] = id])
                       ELSE m.handles[id]],
               !.runningAnimations = ids,
               !.cleanupFunctions = @ \o CleanupsOf(m.animations),
               !.timers = @ \o ElementStartTimers(m.animations),
               !.submissions = IF m.animations = <<>> THEN @ ELSE @ + 1,
               !.joins = Append(@, ids)]

\* A pause() without its guard, for contrast with pause: it would pause the
\* handles and set isPaused in every state.
pauseUnguarded(m) ==
    [m EXCEPT !.handles = ForEachRunning(m, "pause", 0),
              !.state.isPaused = TRUE]

pause(m) ==
    IF ~m.state.isPlaying \/ m.state.isPaused THEN m
    ELSE [m EXCEPT !.handles = ForEachRunning(m, "pause", 0),
                   !.state.isPaused = TRUE]

resume(m) ==
    IF ~m.state.isPaused THEN m
    ELSE [m EXCEPT !.handles = ForEachRunning(m, "play", 0),
                   !.state.isPaused = FALSE]

\* cleanupFunctions.forEach(fn => fn()): each closure writes back the
\* values it captured, to the properties its strategy wrote.
RECURSIVE RunCleanups(_, _)
RunCleanups(fns, st) ==
    IF fns = <<>> THEN st
    ELSE RunCleanups(Tail(fns),
                     [st EXCEPT ![Head(fns).element] =
                                     WriteStyle(@, Head(fns).original)])

\* The teardown reset() and destroy() share.
Teardown(m) ==
    [m EXCEPT !.handles = ForEachRunning(m, "cancel", 0),
              !.runningAnimations = <<>>,
              !.style = RunCleanups(m.cleanupFunctions, m.style),
              !.cleanupFunctions = <<>>]

reset(m) == initialize([Teardown(m) EXCEPT !.state = InitialState])

reverse(m) == [m EXCEPT !.handles = ForEachRunning(m, "reverse", 0)]

\* A seek() that moves the handles but keeps no record, for contrast with
\* seek.
seekUnrecorded(m, time) ==
    [m EXCEPT !.handles = ForEachRunning(m, "currentTime", time)]

seek(m, time) ==
    [m EXCEPT !.handles = ForEachRunning(m, "currentTime", time),
              !.state.currentTime = time]

getTotalDuration(m) ==
    LET baseDuration == OrElse(m.config.duration, DefaultDuration)
        stagger == OrElse(m.config.stagger, DefaultStagger)
        elementCount == Len(m.animations)
    IN baseDuration + (stagger * (elementCount - 1))

\* getState(): the controller after the call; the snapshot returned is its
\* `state` field.
getState(m) ==
    IF Len(m.runningAnimations) > 0
    THEN LET totalDuration == getTotalDuration(m)
             currentTime ==
                 SeqMax([i \in DOMAIN m.runningAnimations |->
                            OrElse(m.handles[m.runningAnimations[i]].currentTime, 0)])
         IN [m EXCEPT !.state.currentTime = currentTime,
                      !.state.progress =
                          IF totalDuration > 0 THEN Ratio(currentTime, totalDuration)
                          ELSE Zero]
    ELSE m

destroy(m) == [Teardown(m) EXCEPT !.animations = <<>>, !.parsedElements = <<>>]

\* { ...config, ...newConfig }
MergeConfig(old, new) ==
    [f \in DOMAIN old |-> IF f \in DOMAIN new THEN new[f] ELSE old[f]]

updateConfig(m, newConfig) ==
    reset([m EXCEPT !.config = MergeConfig(m.config, newConfig)])

\* A continuation that ignores config.loop, for contrast with playFulfilled:
\* it would complete the cycle and start no other.
playFulfilledOnce(m) ==
    [m EXCEPT !.state.isPlaying = FALSE,
              !.state.progress = One,
              !.events = Append(@, "onComplete")]

\* play(), after its await, when Promise.all fulfilled.
playFulfilled(m) ==
    LET done == [m EXCEPT !.state.isPlaying = FALSE,
                          !.state.progress = One,
                          !.events = Append(@, "onComplete")]
    IN IF done.config.loop THEN play(reset(done)) ELSE done

\* A catch block that takes the rejection for a completion, for contrast with
\* playRejected: it would report the cancelled cycle as complete.
playRejectedCompletes(m) ==
    [m EXCEPT !.state.isPlaying = FALSE,
              !.state.progress = One,
              !.events = Append(@, "onComplete")]

\* play(), after its await, when Promise.all rejected: the catch block.
playRejected(m) == [m EXCEPT !.state.isPlaying = FALSE]

----------------------------------------------------------------------------
(* The state machine.                                                      *)

\* The current values, at the start of a step: nothing delivered yet.
Cur ==
    [svg |-> svg, config |-> config, parsedElements |-> parsedElements,
     animations |-> animations, runningAnimations |-> runningAnimations,
     state |-> state, cleanupFunctions |-> cleanupFunctions,
     handles |-> handles, style |-> style, joins |-> joins, timers |-> timers,
     submissions |-> submissions, events |-> <<>>]

\* The phase of the playback state machine a PlaybackState stands for.
Phase(st) ==
    IF st.isPlaying THEN (IF st.isPaused THEN "Paused" ELSE "Playing")
    ELSE IF st.progress = One THEN "Completed" ELSE "Idle"

\* What is left of the host objects after a step: garbage is dropped, and of
\* an object the controller no longer holds only its play state and its
\* promise are kept, as nothing reads its clock again.
Kept(m) ==
    [id \in Reachable(m) |->
        IF id \in Range(m.runningAnimations) THEN m.handles[id]
        ELSE [m.handles[id] EXCEPT !.currentTime = 0, !.rate = 1, !.endTime = 0]]

\* The step that stores the outcome m of a method or of a host event.  The
\* notifications delivered on the way (m.events) go to the caller's callbacks
\* and are no state of the program.
Becomes(m) ==
    /\ svg' = m.svg
    /\ config' = m.config
    /\ parsedElements' = m.parsedElements
    /\ animations' = m.animations
    /\ runningAnimations' = m.runningAnimations
    /\ state' = m.state
    /\ cleanupFunctions' = m.cleanupFunctions
    /\ handles' = Kept(m)
    /\ style' = m.style
    /\ joins' = m.joins
    /\ timers' = m.timers
    /\ submissions' = m.submissions

\* The constructor's field assignments, before it calls initialize().
Fields(doc, cfg) ==
    [svg |-> doc, config |-> cfg, parsedElements |-> <<>>, animations |-> <<>>,
     runningAnimations |-> <<>>, state |-> InitialState,
     cleanupFunctions |-> <<>>, handles |-> <<>>,
     style |-> [e \in DOMAIN doc |-> doc[e].style], joins |-> <<>>,
     timers |-> <<>>,
     submissions |-> 0, events |-> <<>>]

\* A constructor that plays whatever autoPlay says, for contrast with
\* Constructed.
ConstructedPlaying(cfg, autoPlay) ==
    play(initialize(Fields(PlayedDocument, cfg)))

\* new SVGAnimator(svg, config)
Constructed(cfg, autoPlay) ==
    LET built == initialize(Fields(PlayedDocument, cfg))
    IN IF autoPlay THEN play(built) ELSE built

Init ==
    \E cfg \in Configs, autoPlay \in BOOLEAN :
        LET m == Constructed(cfg, autoPlay) IN
        /\ svg = m.svg
        /\ config = m.config
        /\ parsedElements = m.parsedElements
        /\ animations = m.animations
        /\ runningAnimations = m.runningAnimations
        /\ state = m.state
        /\ cleanupFunctions = m.cleanupFunctions
        /\ handles = m.handles
        /\ style = m.style
        /\ joins = m.joins
        /\ timers = m.timers
        /\ submissions = m.submissions

RemoveAt(s, j) == [i \in 1..(Len(s) - 1) |-> IF i < j THEN s[i] ELSE s[i + 1]]

\* Promise.all over the promises suspended play() j awaits has fulfilled /
\* has rejected.
JoinFulfilled(m, j) ==
    \A i \in DOMAIN m.joins[j] : m.handles[m.joins[j][i]].finished = "resolved"

JoinRejected(m, j) ==
    \E i \in DOMAIN m.joins[j] : m.handles[m.joins[j][i]].finished = "rejected"

\* Suspended play() j, taken off the list as it resumes.
Resumed(m, j) == [m EXCEPT !.joins = RemoveAt(m.joins, j)]

\* Whether the model has room for the handles and closures play() would add.
CanPlay(m) ==
    \/ m.state.isPlaying
    \/ /\ Len(m.joins) < MaxCycles
       /\ Cardinality(Reachable(m)) + Len(m.animations) <= MaxHandles
       /\ Len(m.timers) + Len(m.animations) <= MaxTimers
       /\ m.animations = <<>> \/ m.submissions <= MaxReplays

Play == CanPlay(Cur) /\ Becomes(play(Cur))

Pause == Becomes(pause(Cur))

Resume == Becomes(resume(Cur))

Reset == Becomes(reset(Cur))

Reverse == Becomes(reverse(Cur))

Seek(time) == Becomes(seek(Cur, time))

GetState == Becomes(getState(Cur))

Destroy == Becomes(destroy(Cur))

UpdateConfig(newConfig) == Becomes(updateConfig(Cur, newConfig))

\* The continuation of a suspended play() whose awaited promise fulfilled.
PlayFulfilled(j) ==
    /\ JoinFulfilled(Cur, j)
    /\ config.loop => CanPlay(reset(Resumed(Cur, j)))
    /\ Becomes(playFulfilled(Resumed(Cur, j)))

\* The continuation of a suspended play() whose awaited promise rejected.
PlayRejected(j) ==
    /\ JoinRejected(Cur, j)
    /\ Becomes(playRejected(Resumed(Cur, j)))

\* Host: a running animation reaches its end; its onfinish handler calls
\* onElementComplete.
Finish(h) ==
    /\ handles[h].status = "running"
    /\ Becomes([Cur EXCEPT !.handles[h] = HostFinish(handles[h]),
                           !.events = Append(@, "onElementComplete")])

\* Host: the queued finish notification of an animation a seek has finished.
Notify(h) ==
    /\ handles[h].status = "finished"
    /\ handles[h].finished = "pending"
    /\ Becomes([Cur EXCEPT !.handles[h] = HostNotify(handles[h]),
                           !.events = Append(@, "onElementComplete")])

\* The callback of timeout t: it calls onElementStart.
elementStart(m, t) ==
    [m EXCEPT !.timers = RemoveAt(@, t),
              !.events = Append(@, "onElementStart")]

\* Host: a pending timeout runs.
ElementStart(t) == Becomes(elementStart(Cur, t))

Next ==
    \/ Play
    \/ Pause
    \/ Resume
    \/ Reset
    \/ Reverse
    \/ \E time \in SeekTimes : Seek(time)
    \/ GetState
    \/ Destroy
    \/ \E newConfig \in UpdateInputs : UpdateConfig(newConfig)
    \/ \E j \in DOMAIN joins : PlayFulfilled(j)
    \/ \E j \in DOMAIN joins : PlayRejected(j)
    \/ \E h \in DOMAIN handles : Finish(h)
    \/ \E h \in DOMAIN handles : Notify(h)
    \/ \E t \in DOMAIN timers : ElementStart(t)

Spec == Init /\ [][Next]_vars

----------------------------------------------------------------------------
(* The build step on its own: the constructor from its field assignments   *)
(* to the end of its call of initialize(), for every document and          *)
(* configuration of the bounds.                                            *)

BuildInit ==
    \E doc \in Documents, cfg \in BuildConfigs :
        LET m == Fields(doc, cfg) IN
        /\ svg = m.svg
        /\ config = m.config
        /\ parsedElements = m.parsedElements
        /\ animations = m.animations
        /\ runningAnimations = m.runningAnimations
        /\ state = m.state
        /\ cleanupFunctions = m.cleanupFunctions
        /\ handles = m.handles
        /\ style = m.style
        /\ joins = m.joins
        /\ timers = m.timers
        /\ submissions = m.submissions

\* this.initialize(), as the constructor calls it.
Initialize ==
    /\ parsedElements = <<>>
    /\ animations = <<>>
    /\ Becomes(initialize(Cur))

BuildNext == Initialize

BuildSpec == BuildInit /\ [][BuildNext]_vars

----------------------------------------------------------------------------
(* The strategies on their own: the build step for a document of one       *)
(* element, for every element, mode and inline style of the bounds.        *)

StrategyInit ==
    \E shape \in Shapes, cfg \in StrategyConfigs :
        LET m == Fields(<<shape>>, cfg) IN
        /\ svg = m.svg
        /\ config = m.config
        /\ parsedElements = m.parsedElements
        /\ animations = m.animations
        /\ runningAnimations = m.runningAnimations
        /\ state = m.state
        /\ cleanupFunctions = m.cleanupFunctions
        /\ handles = m.handles
        /\ style = m.style
        /\ joins = m.joins
        /\ timers = m.timers
        /\ submissions = m.submissions

StrategyNext == Initialize

StrategySpec == StrategyInit /\ [][StrategyNext]_vars

----------------------------------------------------------------------------
(* Properties.  A statement about what a method leaves behind is stated of *)
(* the method's outcome in every reachable state: reset(Cur) is the        *)
(* controller after a reset() called now.                                  *)

\* The handle set of m holds a handle that is running.
HasRunning(m) ==
    \E i \in DOMAIN m.runningAnimations :
        m.handles[m.runningAnimations[i]].status = "running"

\* Suspended play() j awaits the handles of the current handle set, and
\* each of them has played forward to its end.
CycleCompleted(j) ==
    /\ joins[j] = runningAnimations
    /\ runningAnimations /= <<>>
    /\ JoinFulfilled(Cur, j)
    /\ \A i \in DOMAIN joins[j] :
           LET h == handles[joins[j][i]] IN
           h.status = "finished" /\ h.rate = 1 /\ h.currentTime = h.endTime

\* C1 (as claimed): reset(), called in any reachable state, leaves no
\* outstanding timeline handle (an empty handle set, and no handle obtained
\* from the host still running or paused), an empty cleanup list and the
\* just-constructed PlaybackState.
C1_ResetLeavesNothingOutstanding ==
    LET r == reset(Cur) IN
    /\ r.runningAnimations = <<>>
    /\ \A id \in DOMAIN r.handles : r.handles[id].status \notin {"running", "paused"}
    /\ r.cleanupFunctions = <<>>
    /\ r.state = InitialState

\* C2 (as claimed): with loop disabled, once every handle of the cycle has
\* completed, play() ends with isPlaying=false, getState() reports
\* progress 1, and the completion notification has fired once.
C2_CompletedCycleReportsOne ==
    \A j \in DOMAIN joins :
        (CycleCompleted(j) /\ ~config.loop) =>
            LET f == playFulfilled(Resumed(Cur, j)) IN
            /\ ~f.state.isPlaying
            /\ f.events = <<"onComplete">>
            /\ getState(f).state.progress = One

\* C3: a reset() or destroy() during the wait of play() rejects that wait,
\* and the rejected wait ends in the catch block: isPlaying false, no
\* notification, no new handle, nothing thrown to the caller.
C3_CancellationIsBenign ==
    \A j \in DOMAIN joins :
        /\ (~JoinFulfilled(Cur, j) /\ ~JoinRejected(Cur, j)
               /\ joins[j] = runningAnimations) =>
              (JoinRejected(reset(Cur), j) /\ JoinRejected(destroy(Cur), j))
        /\ JoinRejected(Cur, j) =>
              LET r == playRejected(Resumed(Cur, j)) IN
              /\ ~r.state.isPlaying
              /\ r.events = <<>>
              /\ r.handles = handles
              /\ r.runningAnimations = runningAnimations
              /\ r.joins = RemoveAt(joins, j)

\* A wait that a reset() or destroy() has rejected and whose catch block has
\* yet to run.
C3_Witness ==
    \E j \in DOMAIN joins :
        /\ JoinRejected(Cur, j)
        /\ \A i \in DOMAIN joins[j] : handles[joins[j][i]].status = "idle"

\* C4 (as claimed): while the handle set holds a running handle, isPlaying
\* is true; in particular the catch block of an earlier play() does not
\* clear isPlaying under the handles of a later one.
C4_RunningImpliesPlaying ==
    /\ HasRunning(Cur) => state.isPlaying
    /\ \A j \in DOMAIN joins :
           JoinRejected(Cur, j) =>
               LET r == playRejected(Resumed(Cur, j)) IN
               HasRunning(r) => r.state.isPlaying

\* C5 (as claimed): every handle that is neither finished nor cancelled is
\* in the controller's handle set.
C5_NoOrphanHandle ==
    \A id \in DOMAIN handles :
        handles[id].status \in {"running", "paused"} =>
            id \in Range(runningAnimations)

C7_AnimatedOnce ==
    /\ submissions <= 1
    /\ \A i, k \in DOMAIN cleanupFunctions :
           i /= k => cleanupFunctions[i].element /= cleanupFunctions[k].element

\* The catch blocks of every wait that has rejected, run one after the other.
RECURSIVE Settled(_)
Settled(m) ==
    IF \E j \in DOMAIN m.joins : JoinRejected(m, j)
    THEN Settled(playRejected(Resumed(m, CHOOSE j \in DOMAIN m.joins : JoinRejected(m, j))))
    ELSE m

\* C8 (as claimed): after destroy(), once the waits outstanding at that
\* moment have resolved, the controller is Idle and all its lists are empty.
C8_DestroyLeavesIdle ==
    LET d == Settled(destroy(Cur)) IN
    d.joins = <<>> =>
        /\ ~d.state.isPlaying
        /\ ~d.state.isPaused
        /\ d.runningAnimations = <<>>
        /\ d.cleanupFunctions = <<>>
        /\ d.animations = <<>>
        /\ d.parsedElements = <<>>

\* The element, animation and handle lists of m are empty.
Torn(m) ==
    m.parsedElements = <<>> /\ m.animations = <<>> /\ m.runningAnimations = <<>>

\* C9 (as claimed): once destroy() has emptied the lists, no public call and
\* no pending continuation fills them again.
C9_DestroyIsTerminal ==
    parsedElements = <<>> =>
        /\ Torn(Cur)
        /\ CanPlay(Cur) => Torn(play(Cur))
        /\ Torn(pause(Cur)) /\ Torn(resume(Cur)) /\ Torn(reverse(Cur))
        /\ \A time \in SeekTimes : Torn(seek(Cur, time))
        /\ Torn(reset(Cur))
        /\ \A newConfig \in UpdateInputs : Torn(updateConfig(Cur, newConfig))
        /\ \A j \in DOMAIN joins :
               /\ JoinRejected(Cur, j) => Torn(playRejected(Resumed(Cur, j)))
               /\ (JoinFulfilled(Cur, j) /\ (config.loop => CanPlay(reset(Resumed(Cur, j)))))
                      => Torn(playFulfilled(Resumed(Cur, j)))

\* pause() and resume() as specified: each acts only in its state, on
\* every handle of the set and on isPaused alone.
PauseResumeContract ==
    /\ ~(state.isPlaying /\ ~state.isPaused) => pause(Cur) = Cur
    /\ (state.isPlaying /\ ~state.isPaused) =>
           LET p == pause(Cur) IN
           /\ p.state = [state EXCEPT !.isPaused = TRUE]
           /\ \A id \in Range(runningAnimations) : p.handles[id].status = "paused"
           /\ p = [Cur EXCEPT !.state = p.state, !.handles = p.handles]
           /\ \A id \in DOMAIN handles \ Range(runningAnimations) :
                  p.handles[id] = handles[id]
    /\ ~state.isPaused => resume(Cur) = Cur
    /\ state.isPaused =>
           LET r == resume(Cur) IN
           /\ r.state = [state EXCEPT !.isPaused = FALSE]
           /\ \A id \in Range(runningAnimations) : r.handles[id].status = "running"
           /\ r = [Cur EXCEPT !.state = r.state, !.handles = r.handles]
           /\ \A id \in DOMAIN handles \ Range(runningAnimations) :
                  r.handles[id] = handles[id]

\* pause() then resume() gives back isPaused as it was, and leaves
\* isPlaying, progress and the handle set alone.
PauseResumeRoundTrip ==
    LET r == resume(pause(Cur)) IN
    /\ r.state.isPaused = state.isPaused
    /\ r.state.isPlaying = state.isPlaying
    /\ r.state.progress = state.progress
    /\ r.runningAnimations = runningAnimations

\* C10 (as claimed): the contract of pause() and resume(), and the round
\* trip from every state.
C10_PauseResumeAsClaimed == PauseResumeContract /\ PauseResumeRoundTrip

\* C10 (amended): the contract of pause() and resume(), and the round trip
\* from every state in which isPaused is false.
C10_PauseResume == PauseResumeContract /\ (~state.isPaused => PauseResumeRoundTrip)

\* A cycle that pause() has paused: a second pause() does nothing, and
\* resume() sets its handles running again and clears isPaused.
C10_Witness ==
    /\ state.isPlaying /\ state.isPaused
    /\ runningAnimations /= <<>>
    /\ \A id \in Range(runningAnimations) : handles[id].status = "paused"
    /\ pause(Cur) = Cur
    /\ ~resume(Cur).state.isPaused
    /\ HasRunning(resume(Cur))

\* C11: play() called while isPlaying is true (paused or not) changes
\* nothing and fires nothing; called while isPlaying is false it sets
\* isPlaying, clears isPaused and fires onStart once.
C11_PlayOnlyWhenNotPlaying ==
    /\ state.isPlaying => play(Cur) = Cur
    /\ (~state.isPlaying /\ CanPlay(Cur)) =>
           LET p == play(Cur) IN
           /\ p.state = [state EXCEPT !.isPlaying = TRUE, !.isPaused = FALSE]
           /\ p.events = <<"onStart">>

\* A paused cycle, which play() has started and on which a further play()
\* does nothing.
C11_Witness ==
    /\ state.isPlaying /\ state.isPaused
    /\ runningAnimations /= <<>>
    /\ submissions = 1
    /\ play(Cur) = Cur

\* C12 (as claimed): the progress getState() reports, and the progress
\* stored, are within [0, 1].
C12_ProgressWithinUnit ==
    LET stored == state.progress
        reported == getState(Cur).state.progress
    IN /\ 0 <= stored[1] /\ stored[1] <= stored[2]
       /\ 0 <= reported[1] /\ reported[1] <= reported[2]

\* C13 (as claimed): for a build of at least one element, getTotalDuration
\* is the configured duration plus the configured stagger times
\* (elementCount - 1), whatever the two values, a stagger of 0 included.
C13_TotalDurationFormula ==
    Len(animations) >= 1 =>
        getTotalDuration(Cur) =
            config.duration + config.stagger * (Len(animations) - 1)

\* The delay override configured for the element with stable id `id`, 0
\* when there is none.
OverrideDelay(id) ==
    IF id \in DOMAIN config.elementConfig THEN config.elementConfig[id].delay ELSE 0

\* C14: in every build, the delay in the timing options of the element at
\* position i (from 0) of the flattened order, which play() hands to the
\* host, is its override delay + the base delay + the stagger times i.
C14_ResolvedDelay ==
    LET flat == flattenElements(parsedElements) IN
    /\ Len(animations) = Len(flat)
    /\ \A i \in DOMAIN animations :
           /\ animations[i].element = flat[i].element
           /\ animations[i].options.delay =
                  OverrideDelay(flat[i].id) + config.delay + config.stagger * (i - 1)
           /\ NewAnimation(animations[i]).endTime =
                  animations[i].options.delay + animations[i].options.duration

\* The build of three elements with stagger 100 and base delay 0, the second
\* of which has an override delay of 30: delays 0, 130 and 200.
C14_Witness ==
    /\ Len(animations) = 3
    /\ config.stagger = 100 /\ config.delay = 0
    /\ OverrideDelay(flattenElements(parsedElements)[2].id) = 30
    /\ [i \in 1..3 |-> animations[i].options.delay] = <<0, 130, 200>>

\* C15 (as claimed): reverse() called while isPlaying is false changes no
\* handle and nothing else; called while playing it requests reversal on
\* every handle of the set and changes no PlaybackState flag.
C15_ReverseOnlyWhenPlaying ==
    /\ ~state.isPlaying => reverse(Cur) = Cur
    /\ state.isPlaying =>
           LET r == reverse(Cur) IN
           /\ r.state = state
           /\ \A id \in Range(runningAnimations) :
                  r.handles[id] = HostReverse(handles[id])

\* C16: seek(time), in any state, sets the current time of every handle of
\* the set to time, records time in PlaybackState, and changes nothing else
\* of the controller: not isPlaying, isPaused or progress, not the handle
\* set, the cleanup list or the animation list, and no other host object.
C16_SeekFrame ==
    \A time \in SeekTimes :
        LET s == seek(Cur, time) IN
        /\ s.state = [state EXCEPT !.currentTime = time]
        /\ DOMAIN s.handles = DOMAIN handles
        /\ \A id \in DOMAIN handles :
               IF id \in Range(runningAnimations)
               THEN s.handles[id].currentTime = time
               ELSE s.handles[id] = handles[id]
        /\ s = [Cur EXCEPT !.state = s.state, !.handles = s.handles]

\* A cycle seek(2000) has acted on: its handles and the recorded time are at
\* 2000, and a seek(0) would move both back.
C16_Witness ==
    /\ runningAnimations /= <<>>
    /\ state.currentTime = 2000
    /\ \A id \in Range(runningAnimations) : handles[id].currentTime = 2000
    /\ seek(Cur, 0).state.currentTime = 0
    /\ \A id \in Range(runningAnimations) : seek(Cur, 0).handles[id].currentTime = 0

\* C17: a controller constructed with autoPlay=false is Idle, with no handle
\* submitted, no wait outstanding and no notification fired; one constructed
\* with autoPlay=true is that controller after play().  Stated of a
\* controller constructed with the configuration of the current state.
C17_AutoPlay ==
    LET idle == Constructed(config, FALSE) IN
    /\ idle.state = InitialState
    /\ idle.runningAnimations = <<>>
    /\ DOMAIN idle.handles = {}
    /\ idle.joins = <<>>
    /\ idle.submissions = 0
    /\ idle.events = <<>>
    /\ Constructed(config, TRUE) = play(idle)
    /\ Constructed(config, TRUE).events = <<"onStart">>

\* The controller as constructed with autoPlay=false: Idle, built, and one
\* play() away from the controller constructed with autoPlay=true.
C17_Witness ==
    /\ Cur = Constructed(config, FALSE)
    /\ Phase(state) = "Idle"
    /\ animations /= <<>>
    /\ DOMAIN handles = {}
    /\ play(Cur) = Constructed(config, TRUE)

\* The elements of the document whose kind is not unknown, in document
\* order, which is the order of a pre-order walk.
AnimatableNodes ==
    SelectSeq([j \in 1..Len(svg) |-> j],
              LAMBDA j : getElementType(svg[j].tag) /= "unknown")

\* The elements of the flattened analysis of the document, in order.
FlatNodes ==
    LET flat == flattenElements(parseSVG(svg))
    IN [i \in DOMAIN flat |-> flat[i].element]

\* C18 (as claimed): the flattened analysis holds exactly the animatable
\* elements of the document, at any depth and under any kind of parent,
\* each once, in pre-order.
C18_FlattenIsAnimatableNodes == FlatNodes = AnimatableNodes

\* C19 (as claimed): no two elements of one analysis share a stable id, and
\* the id is the element's own id if it has one, else "anim-" followed by
\* its sequence index.
C19_StableIdsUnique ==
    LET flat == flattenElements(parseSVG(svg)) IN
    /\ \A i, k \in DOMAIN flat : i /= k => flat[i].id /= flat[k].id
    /\ \A i \in DOMAIN flat :
           flat[i].id = IF svg[flat[i].element].id /= ""
                        THEN svg[flat[i].element].id
                        ELSE "anim-" \o IndexText(flat[i].index)

\* C20: the sequence indices of an analysis increase strictly along the
\* pre-order walk and are unique, and the element at position i (from 0) of
\* the flattened analysis has sequence index i; the build stores that
\* analysis.
C20_IndexIsFlatPosition ==
    LET flat == flattenElements(parseSVG(svg)) IN
    /\ \A i \in DOMAIN flat : flat[i].index = i - 1
    /\ \A i, k \in DOMAIN flat :
           i < k => (flat[i].element < flat[k].element /\ flat[i].index < flat[k].index)
    /\ parsedElements /= <<>> => flattenElements(parsedElements) = flat

\* The build of a group holding an unknown wrapper holding a shape: the
\* group has index 0 and the shape, two levels down, index 1.
C20_Witness ==
    /\ Len(svg) = 3
    /\ svg[1].tag = "g" /\ svg[2].tag = "a" /\ svg[3].tag = "circle"
    /\ svg[2].depth = 2 /\ svg[3].depth = 3
    /\ Len(parsedElements) = 1
    /\ Len(parsedElements[1].children) = 1
    /\ FlatNodes = <<1, 3>>
    /\ flattenElements(parsedElements)[2].index = 1

\* The kinds of element that have an outline to draw.
Outlined == {"path", "line", "polyline", "polygon"}

\* C21 (as claimed): the heuristic maps a path, line, polyline or polygon
\* to "draw" exactly when it has a stroke that is not none and not of width
\* zero and its pathLength is defined, a length of 0 included, else to
\* "fade"; a circle, ellipse or rect to "scale"; any other kind to "fade".
C21_AutoMotion ==
    \A i \in DOMAIN parsedElements :
        LET parsed == parsedElements[i]
            element == svg[parsed.element]
        IN determineAutoAnimation(svg, parsed) =
               CASE parsed.type \in Outlined ->
                        IF hasStroke(element) /\ getPathLength(element) /= <<>>
                        THEN "draw" ELSE "fade"
                 [] parsed.type \in {"circle", "ellipse", "rect"} -> "scale"
                 [] OTHER -> "fade"

\* The inline style of every element as the document had it when the
\* controller was constructed.
OriginalStyle == [e \in DOMAIN svg |-> svg[e].style]

\* C22: once a strategy has run on an element, draw, scale, rotate and
\* pulse have returned a cleanup, and invoking it gives every style
\* property of the element the value it had before the strategy ran (draw
\* has written the dash array and the dash offset, the other three the
\* transform origin); fade, slide and bounce have returned no cleanup and
\* have left the style as it was.
C22_CleanupUndoesMutation ==
    \A i \in DOMAIN animations :
        LET anim == animations[i]
            afterCleanup == RunCleanups(CleanupsOf(<<anim>>), style)
        IN /\ anim.cleanup = (anim.keyframes \in {"draw", "scale", "rotate", "pulse"})
           /\ afterCleanup = OriginalStyle
           /\ ~anim.cleanup => style = OriginalStyle
           /\ anim.keyframes = "draw" =>
                  /\ style[anim.element].strokeDasharray = style[anim.element].strokeDashoffset
                  /\ style[anim.element].strokeDasharray \in {"120", "1000"}
                  /\ style[anim.element].transformOrigin =
                         OriginalStyle[anim.element].transformOrigin
           /\ anim.keyframes \in {"scale", "rotate", "pulse"} =>
                  style[anim.element] =
                      [OriginalStyle[anim.element] EXCEPT !.transformOrigin = CentreOrigin]

\* A path with a dash array and a dash offset of its own, on which the draw
\* strategy has written its length to both and whose cleanup writes the
\* two back.
C22_Witness ==
    /\ Len(animations) = 1
    /\ animations[1].keyframes = "draw"
    /\ animations[1].cleanup
    /\ OriginalStyle[1].strokeDasharray = "4 2"
    /\ OriginalStyle[1].strokeDashoffset = "3"
    /\ style[1].strokeDasharray = "120"
    /\ style[1].strokeDashoffset = "120"
    /\ RunCleanups(CleanupsOf(animations), style) = OriginalStyle

\* The duration override configured for the element with stable id `id`,
\* 0 when there is none.
OverrideDuration(id) ==
    IF id \in DOMAIN config.elementConfig THEN config.elementConfig[id].duration ELSE 0

\* C23 (as claimed): in every build, the duration in the timing options of
\* an element, which play() hands to the host, is the element's override
\* when it has one, else the configured duration, whatever its value, 0
\* included; the default of 1000 is for a duration that is not configured.
C23_ResolvedTiming ==
    LET flat == flattenElements(parsedElements) IN
    \A i \in DOMAIN animations :
        animations[i].options.duration =
            IF OverrideDuration(flat[i].id) /= 0 THEN OverrideDuration(flat[i].id)
            ELSE config.duration

\* C24 (as claimed): destroy(), called in any reachable state (after any
\* sequence of construction with autoPlay on or off, play, pause, resume,
\* reset, updateConfig and completion events, a build that was never
\* played included), leaves the dash array, the dash offset and the
\* transform origin of every element as they were before the controller
\* was constructed.
C24_DestroyRestoresStyle == destroy(Cur).style = OriginalStyle

\* C25 (as claimed): reset() and destroy(), called in any reachable state,
\* leave no element-start timeout of an earlier cycle pending, so that none
\* fires once they have returned; and while the controller is paused no
\* element-start timeout is pending, so that none fires during the pause.
C25_NoStaleNotification ==
    /\ reset(Cur).timers = <<>>
    /\ destroy(Cur).timers = <<>>
    /\ state.isPaused => timers = <<>>
====
